---- MODULE Spec2Model ----
(***************************************************************************)
(* A model of the GIMP VTF plug-in (src/src/file-vtf.cpp): the two         *)
(* procedures gimp_vtf_export and gimp_vtf_load, with export_image and     *)
(* load_image, between a host document (a stack of layers) and a texture   *)
(* container addressed by (frame, face).  The codec (vtfpp) and the host   *)
(* (GIMP) are the environment: what they answer is an input.               *)
(***************************************************************************)
EXTENDS Integers, Sequences, FiniteSets, TLC

\* ------------------------------------------------------------------ bounds
\* The largest layer count of an ordinary document.
MaxLayers == 7
\* The largest frame count of a container found on disk.
MaxFrames == 2
\* Layer widths and heights are drawn from 2 .. MaxDim.
MaxDim == 3
\* The codec may fail its k-th per-plane call of a handler, k < MaxFail.
MaxFail == 1
\* The number of procedure runs (export, load) of one behaviour.
MaxOps == 3
\* load_image is run on containers of at most this many planes.
MaxImport == 21

\* ------------------------------------------------- constants of the source
\* uint16_t frame_index: the number of values it holds.
FrameIndexRange == 65536
\* uint8_t face_index: the number of values it holds.
FaceIndexRange == 256
\* The choice ids of "image_type".
TYPE_STANDARD == 0
TYPE_ENVMAP == 1
TYPE_VOLUMETRIC == 2
\* setFaceCount(true, layer_count >= 7): the layer count from which the
\* spheremap face is declared.
SphereMapLayers == 7

\* "Layer %.3d": the precision, the least number of digits printed.
NamePrecision == 3

VTFImageType == {TYPE_STANDARD, TYPE_ENVMAP, TYPE_VOLUMETRIC}
GimpRunMode == {"NONINTERACTIVE", "INTERACTIVE", "WITH_LAST_VALS"}
GimpExportReturn == {"EXPORT", "IGNORE"}
ResizeMethod == {"bigger", "smaller", "nearest"}

\* ------------------------------------------------------------- pixel data
\* The pixels of the document's original layer i, of a plane no setImage
\* wrote, and of a buffer that was allocated and never filled.
LayerPixels(i) == [kind |-> "layer", id |-> i]
BlankPixels == [kind |-> "blank", id |-> 0]
UninitPixels == {[kind |-> "uninit", id |-> g] : g \in {0, 1}}

\* ------------------------------------------------------------ pure helpers
\* g_list_reverse left out: the list in the order the host gives it.
g_list_copy(s) == s

\* g_list_reverse
g_list_reverse(s) == [i \in 1..Len(s) |-> s[Len(s) + 1 - i]]

Pow2UpTo(x) == {p \in 1..(2 * x) : \E e \in 0..x : p = 2^e}
Pow2Above(x) == CHOOSE p \in Pow2UpTo(x) : p >= x /\ \A q \in Pow2UpTo(x) : q >= x => p <= q
Pow2Below(x) == CHOOSE p \in Pow2UpTo(x) : p <= x /\ \A q \in Pow2UpTo(x) : q <= x => q <= p

\* The sizes the codec may give a side of x pixels under a resize method
\* (a tie of "nearest" is the codec's to break).
ResizedDims(method, x) ==
    CASE method = "bigger" -> {Pow2Above(x)}
      [] method = "smaller" -> {Pow2Below(x)}
      [] OTHER ->
           IF Pow2Above(x) - x < x - Pow2Below(x) THEN {Pow2Above(x)}
           ELSE IF Pow2Above(x) - x > x - Pow2Below(x) THEN {Pow2Below(x)}
           ELSE {Pow2Below(x), Pow2Above(x)}

\* ------------------------------------------ export: layer index -> plane
\* uint16_t frame_index = 0; if (standard) frame_index = layer_index;
frame_index(image_type, layer_index) ==
    IF image_type = TYPE_STANDARD THEN layer_index % FrameIndexRange ELSE 0

\* uint8_t face_index = 0; if (!standard) face_index = layer_index;
face_index(image_type, layer_index) ==
    IF image_type = TYPE_STANDARD THEN 0 ELSE layer_index % FaceIndexRange

\* ExportFrameCount with setFrameCount called whatever the texture type.
ExportFrameCountAnyType(image_type, layer_count) == layer_count

\* export_vtf.setFrameCount(layer_count) on a fresh container (1 frame).
ExportFrameCount(image_type, layer_count) ==
    IF image_type = TYPE_STANDARD THEN layer_count ELSE 1

\* ExportFaceCount with the spheremap face never declared.
ExportFaceCountNoSphere(image_type, layer_count) ==
    IF image_type = TYPE_STANDARD THEN 1 ELSE 6

\* export_vtf.setFaceCount(true, layer_count >= 7) on a fresh container
\* (1 face): six cubemap faces, and the spheremap face from 7 layers on.
ExportFaceCount(image_type, layer_count) ==
    IF image_type = TYPE_STANDARD THEN 1
    ELSE IF layer_count >= SphereMapLayers THEN 7 ELSE 6

\* ------------------------------------------------------------------ state
VARIABLES
    image,      \* the document open in the host
    file,       \* the container on disk
    config,     \* the procedure's configuration (the user's choices)
    env,        \* what the host and the codec will answer
    exports,    \* one record per run of gimp_vtf_export, oldest first
    loads,      \* one record per run of gimp_vtf_load, oldest first
    last,       \* the procedure that ran last
    loop        \* export_image's setImage loop, taken one iteration at a time

vars == <<image, file, config, env, exports, loads, last, loop>>

\* Every run record carries "run", its ordinal among the runs so far.

NoImage == [open |-> FALSE, width |-> 0, height |-> 0, layers |-> << >>]
NoFile == [exists |-> FALSE, width |-> 0, height |-> 0,
           frame_count |-> 0, face_count |-> 0, writes |-> << >>]

\* A layer of a document: its name's number (0: not named by load_image),
\* its size and its pixels.
Layer(number, width, height, px) ==
    [number |-> number, width |-> width, height |-> height, px |-> px]

\* A document of n layers of one size, as gimp_image_list_layers gives it:
\* top of the stack first. The bottom layer holds LayerPixels(0).
Document(n, width, height) ==
    [open |-> TRUE, width |-> width, height |-> height,
     layers |-> [k \in 1..n |-> Layer(0, width, height, LayerPixels(n - k))]]

\* One setImage call as the codec saw it.
SetImageCall(i, image_type, width, height, px, ok) ==
    [layer_index |-> i,
     frame_index |-> frame_index(image_type, i),
     face_index |-> face_index(image_type, i),
     mip |-> 0,
     width |-> width, height |-> height, px |-> px, ok |-> ok]

\* A container some other tool wrote: every plane of frames x faces set.
Container(frames, faces, width, height) ==
    [exists |-> TRUE, width |-> width, height |-> height,
     frame_count |-> frames, face_count |-> faces,
     writes |-> [k \in 1..(frames * faces) |->
                   [layer_index |-> k - 1,
                    frame_index |-> (k - 1) \div faces,
                    face_index |-> (k - 1) % faces,
                    mip |-> 0,
                    width |-> width, height |-> height,
                    px |-> LayerPixels(k - 1), ok |-> TRUE]]]

\* ------------------------------------------------------------ export_image
\* ExportLoop with the "return false" after a failed setImage in force: the
\* loop ends at the first call that fails.
ExportLoopStopAtFailure(drawables, image_type, width, height, codec_fail) ==
    LET failing == {k \in 1..Len(drawables) : (k - 1) \in codec_fail}
        stop == IF failing = {} THEN Len(drawables)
                ELSE CHOOSE k \in failing : \A j \in failing : k <= j
    IN  [k \in 1..stop |->
            SetImageCall(k - 1, image_type, width, height, drawables[k].px,
                         (k - 1) \notin codec_fail)]

\* The setImage loop: layer_index 0 .. layer_count-1, each layer once; a
\* failed call is warned about and the loop goes on.
ExportLoop(drawables, image_type, width, height, codec_fail) ==
    [k \in 1..Len(drawables) |->
        SetImageCall(k - 1, image_type, width, height, drawables[k].px,
                     (k - 1) \notin codec_fail)]

\* ExportCalls with computeMips called whatever the mipmap filter.
ExportCallsAlwaysMips(cfg, set_image_calls) ==
    <<"setVersion", "addFlags", "setImageResizeMethods", "setSize">>
    \o << IF cfg.image_type = TYPE_STANDARD THEN "setFrameCount" ELSE "setFaceCount" >>
    \o [k \in 1..set_image_calls |-> "setImage"]
    \o <<"setBumpMapScale">>
    \o (IF cfg.mipmap_filter # "none" THEN <<"setMipCount", "computeMips">>
        ELSE <<"setMipCount(1)", "computeMips">>)
    \o << IF cfg.thumbnail_enabled THEN "computeThumbnail" ELSE "removeThumbnail" >>
    \o (IF cfg.recompute_reflectivity_enabled THEN <<"computeReflectivity">> ELSE << >>)
    \o <<"computeTransparencyFlags", "setFormat", "bake">>

\* The codec calls of export_image in program order.
ExportCalls(cfg, set_image_calls) ==
    <<"setVersion", "addFlags", "setImageResizeMethods", "setSize">>
    \o << IF cfg.image_type = TYPE_STANDARD THEN "setFrameCount" ELSE "setFaceCount" >>
    \o [k \in 1..set_image_calls |-> "setImage"]
    \o <<"setBumpMapScale">>
    \o (IF cfg.mipmap_filter # "none" THEN <<"setMipCount", "computeMips">>
        ELSE <<"setMipCount(1)">>)
    \o << IF cfg.thumbnail_enabled THEN "computeThumbnail" ELSE "removeThumbnail" >>
    \o (IF cfg.recompute_reflectivity_enabled THEN <<"computeReflectivity">> ELSE << >>)
    \o <<"computeTransparencyFlags", "setFormat", "bake">>

\* ExportSuccessful with the "return false" after a failed setImage in
\* force: a layer the codec refused fails the export.
ExportSuccessfulAllSet(submitted, bake_ok) ==
    bake_ok /\ \A k \in 1..Len(submitted) : submitted[k].ok

\* What export_image returns: bytes_to_image_successful is only warned
\* about, export_successful is what bake returned.
ExportSuccessful(submitted, bake_ok) == bake_ok

\* export_image on the reversed layer list, with the size read from the
\* first entry; out_width x out_height is the size the codec gave the
\* container. Returns what the run did.
export_image(drawables, cfg, width, height, out_width, out_height, codec_fail, bake_ok) ==
    LET layer_count == Len(drawables)
        image_type == cfg.image_type
        submitted == ExportLoop(drawables, image_type, width, height, codec_fail)
    IN  [layer_count |-> layer_count,
         width |-> width, height |-> height,
         out_width |-> out_width, out_height |-> out_height,
         frame_count |-> ExportFrameCount(image_type, layer_count),
         face_count |-> ExportFaceCount(image_type, layer_count),
         submitted |-> submitted,
         calls |-> ExportCalls(cfg, Len(submitted)),
         allocated |-> Len(submitted),
         freed |-> 0,
         export_successful |-> ExportSuccessful(submitted, bake_ok)]

\* What a run of export_image that never started leaves behind.
NotExported ==
    [layer_count |-> 0, width |-> 0, height |-> 0,
     out_width |-> 0, out_height |-> 0,
     frame_count |-> 0, face_count |-> 0,
     submitted |-> << >>, calls |-> << >>,
     allocated |-> 0, freed |-> 0, export_successful |-> FALSE]

\* The container bake writes: the declared counts and the planes set.
Baked(r) ==
    [exists |-> TRUE, width |-> r.out_width, height |-> r.out_height,
     frame_count |-> r.frame_count, face_count |-> r.face_count,
     writes |-> r.submitted]

\* --------------------------------------------------------- gimp_vtf_export
Dims == 2..MaxDim

\* status after "if (status == GIMP_PDB_SUCCESS)": the export ran, and
\* status follows what export_image returned.
ExportStatus(export_successful) ==
    IF export_successful THEN "SUCCESS" ELSE "EXECUTION_ERROR"

\* What one run of gimp_vtf_export may do on document img: a set of run
\* records, one per answer of the environment. With no layer, drawables is
\* NULL and drawables->data (has_alpha, then drawable_reference) is
\* undefined: the run dies there, or goes on with what it read.
ExportRuns(img, cfg, e) ==
    LET drawables == g_list_reverse(img.layers)
        empty == drawables = << >>
        dialog_shown == cfg.run_mode # "NONINTERACTIVE"
        cancelled == dialog_shown /\ ~e.dialog_ok
        Run(r, status, crashed, shown) ==
            r @@ [image_type |-> cfg.image_type,
                  run_mode |-> cfg.run_mode,
                  status |-> status,
                  crashed |-> crashed,
                  zero_layers |-> empty,
                  null_deref |-> empty,
                  dialog_shown |-> shown,
                  export_image_called |-> r.calls # << >>,
                  copy_created |-> e.export_type = "EXPORT",
                  copy_deleted |-> crashed = "no" /\ e.export_type = "EXPORT",
                  original_deleted |-> FALSE]
        Ran(r) == Run(r, ExportStatus(r.export_successful), "no", dialog_shown)
        Sizes == IF empty THEN Dims \X Dims
                 ELSE {<<drawables[1].width, drawables[1].height>>}
    IN  (IF empty THEN {Run(NotExported, "CRASH", "has_alpha", FALSE)} ELSE {})
        \cup
        (IF cancelled THEN {Run(NotExported, "CANCEL", "no", TRUE)}
         ELSE (IF empty
               THEN {Run(NotExported, "CRASH", "drawable_reference", dialog_shown)}
               ELSE {})
              \cup
              UNION {
                {Ran(export_image(drawables, cfg, wh[1], wh[2], ow, oh,
                                  e.codec_fail, e.bake_ok)) :
                   ow \in ResizedDims(resize_method, wh[1]),
                   oh \in ResizedDims(resize_method, wh[2])} :
                wh \in Sizes, resize_method \in ResizeMethod})

Runs == Len(exports) + Len(loads)

gimp_vtf_export ==
    /\ image.open
    /\ last # "export"
    /\ Runs < MaxOps
    /\ \E r \in ExportRuns(image, config, env) :
         /\ exports' = Append(exports, r @@ [run |-> Runs + 1])
         /\ file' = IF r.status = "SUCCESS" THEN Baked(r) ELSE file
    /\ last' = "export"
    /\ UNCHANGED <<image, config, env, loads, loop>>

\* -------------------------------------------------------------- load_image
\* The decimal digits of n >= 0, most significant first.
RECURSIVE DecimalDigits(_)
DecimalDigits(n) ==
    IF n < 10 THEN <<n>> ELSE DecimalDigits(n \div 10) \o <<n % 10>>

\* %.<precision>d: zeros in front up to precision digits, never a digit cut.
ZeroPad(digits, precision) ==
    [i \in 1..(precision - Len(digits)) |-> 0] \o digits

\* layer_name with the format "Layer %d": the number as it is.
layer_name_unpadded(number) == <<"Layer ">> \o DecimalDigits(number)

\* g_strdup_printf("Layer %.3d", number): the text, then the digits.
layer_name(number) ==
    <<"Layer ">> \o ZeroPad(DecimalDigits(number), NamePrecision)

\* for (fa_i = 0; fa_i < face_count; fa_i++): the planes of one frame.
FaceLoop(fr_i, face_count) ==
    [j \in 1..face_count |-> [frame |-> fr_i, face |-> j - 1]]

\* FrameLoop with the two loops swapped: faces outside, frames inside.
FrameLoopFaceMajor(fr_i, frame_count, face_count) ==
    [k \in 1..(frame_count * face_count) |->
        [frame |-> (k - 1) % frame_count, face |-> (k - 1) \div frame_count]]

\* for (fr_i = 0; fr_i < frame_count; fr_i++) for (fa_i ...): the planes in
\* the order load_image visits them.
RECURSIVE FrameLoop(_, _, _)
FrameLoop(fr_i, frame_count, face_count) ==
    IF fr_i >= frame_count THEN << >>
    ELSE FaceLoop(fr_i, face_count) \o FrameLoop(fr_i + 1, frame_count, face_count)

\* vtf_file.getImageDataAsRGBA8888(0, frame, face, 0): the plane the
\* container holds there, which is what the last successful setImage on
\* that coordinate wrote, or a blank plane.
getImageData(f, frame, face) ==
    LET S == {i \in 1..Len(f.writes) :
                /\ f.writes[i].ok
                /\ f.writes[i].mip = 0
                /\ f.writes[i].frame_index = frame
                /\ f.writes[i].face_index = face}
    IN  IF S = {} THEN BlankPixels
        ELSE f.writes[CHOOSE i \in S : \A j \in S : j <= i].px

\* gimp_image_insert_layer(image, layer, NULL, 0): the new layer goes on
\* top of the stack.
InsertLayer(layers, layer) == <<layer>> \o layers

RECURSIVE InsertAll(_, _, _)
InsertAll(layers, created, k) ==
    IF k > Len(created) THEN layers
    ELSE InsertAll(InsertLayer(layers, created[k]), created, k + 1)

\* The ordinals (from 0) of the planes whose decode fails in this run.
FailedPlanes(f, codec_fail) ==
    {k \in 0..(f.frame_count * f.face_count - 1) : k \in codec_fail}

\* load_image on container f. The codec hands back an empty vector for a
\* plane it cannot decode; nothing checks that, the copy loop moves no
\* byte and dst_buf, never initialised, is written to the layer: junk[k]
\* stands for what it held. Returns what the run did.
load_image(f, codec_fail, junk) ==
    LET width == f.width
        height == f.height
        planes == FrameLoop(0, f.frame_count, f.face_count)
        created == [k \in 1..Len(planes) |->
                      [layer_number |-> k,
                       layer_name |-> layer_name((k - 1) + 1),
                       frame |-> planes[k].frame,
                       face |-> planes[k].face,
                       decoded |-> (k - 1) \notin codec_fail,
                       layer |-> Layer(k, width, height,
                                       IF (k - 1) \in codec_fail THEN junk[k - 1]
                                       ELSE getImageData(f, planes[k].frame,
                                                         planes[k].face))]]
    IN  [width |-> width, height |-> height,
         frame_count |-> f.frame_count, face_count |-> f.face_count,
         created |-> created,
         image |-> [open |-> TRUE, width |-> width, height |-> height,
                    layers |-> InsertAll(<< >>,
                                         [k \in 1..Len(created) |-> created[k].layer],
                                         1)],
         returned_image |-> TRUE,
         allocated |-> Len(planes),
         freed |-> 0]

\* ----------------------------------------------------------- gimp_vtf_load
\* The status gimp_vtf_load returns for what load_image returned.
LoadStatus(r) ==
    IF ~r.returned_image THEN "EXECUTION_ERROR" ELSE "SUCCESS"

gimp_vtf_load ==
    /\ file.exists
    /\ last # "load"
    /\ Runs < MaxOps
    /\ file.frame_count * file.face_count <= MaxImport
    /\ \E junk \in [FailedPlanes(file, env.codec_fail) -> UninitPixels] :
         LET r == load_image(file, env.codec_fail, junk)
         IN  /\ loads' = Append(loads, r @@ [status |-> LoadStatus(r), run |-> Runs + 1])
             /\ image' = IF r.returned_image THEN r.image ELSE image
    /\ last' = "load"
    /\ UNCHANGED <<file, config, env, exports, loop>>

\* ------------------------------------------------------------------- Init
\* The configurations of the procedure: the texture type, the run mode
\* and the options that add or drop a codec call.
Configs ==
    [image_type : VTFImageType,
     run_mode : GimpRunMode,
     mipmap_filter : {"none", "kaiser"},
     thumbnail_enabled : BOOLEAN,
     recompute_reflectivity_enabled : BOOLEAN]

\* The options as the procedure declares their defaults, run without a
\* dialog.
DefaultConfigs ==
    {c \in Configs : /\ c.run_mode = "NONINTERACTIVE"
                     /\ c.mipmap_filter = "kaiser"
                     /\ c.thumbnail_enabled
                     /\ c.recompute_reflectivity_enabled}

\* What the environment answers: the per-plane codec calls that fail (by
\* their ordinal within a run), the dialog, bake, and whether the host made
\* an export copy. The dialog's answer matters only when one is shown.
Envs ==
    [codec_fail : SUBSET (0..(MaxFail - 1)),
     dialog_ok : BOOLEAN,
     bake_ok : BOOLEAN,
     export_type : GimpExportReturn]

\* The smallest layer count at which face_index no longer fits its type.
WideLayerCount == FaceIndexRange + 1

\* The setImage loop when it is not being stepped.
NoLoop ==
    [pc |-> "idle", image_type |-> TYPE_STANDARD, layer_count |-> 0,
     layer_index |-> 0, frame_count |-> 0, face_count |-> 0,
     calls |-> 0, call |-> SetImageCall(0, TYPE_STANDARD, 0, 0, BlankPixels, FALSE)]

InitCommon ==
    /\ config \in DefaultConfigs
    /\ env \in Envs
    /\ env.dialog_ok
    /\ env.export_type = "IGNORE"
    /\ exports = << >>
    /\ loads = << >>
    /\ last = "none"
    /\ loop = NoLoop

\* The user has a document and exports it.
InitDocument ==
    /\ InitCommon
    /\ \E n \in 0..MaxLayers, width \in Dims, height \in Dims :
         /\ height <= width
         /\ image = Document(n, width, height)
    /\ file = NoFile

\* The user has a container on disk and loads it.
InitContainer ==
    /\ InitCommon
    /\ image = NoImage
    /\ \E frames \in 1..MaxFrames, faces \in {1, 6, 7},
          width \in Dims, height \in Dims :
         /\ height <= width
         /\ file = Container(frames, faces, width, height)

\* The user exports a document of more layers than face_index can count.
InitWide ==
    /\ InitCommon
    /\ env.codec_fail = {}
    /\ env.bake_ok
    /\ image = Document(WideLayerCount, MaxDim - 1, MaxDim - 1)
    /\ file = NoFile

Init == InitDocument \/ InitContainer \/ InitWide

Next == gimp_vtf_export \/ gimp_vtf_load

Spec == Init /\ [][Next]_vars

\* ------------------------------------------- every option, small documents
\* The largest layer count of a document exported under every option.
MaxRunLayers == 2

InitRun ==
    /\ config \in Configs
    /\ env \in Envs
    /\ (config.run_mode = "NONINTERACTIVE" => env.dialog_ok)
    /\ exports = << >>
    /\ loads = << >>
    /\ last = "none"
    /\ loop = NoLoop
    /\ \E n \in 0..MaxRunLayers : image = Document(n, MaxDim - 1, MaxDim - 1)
    /\ file = NoFile

SpecRun == InitRun /\ [][Next]_vars

\* ------------------------------------------- the setImage loop, stepwise
\* export_image from "int layer_count = g_list_length(drawables)" to the
\* end of the for loop, one iteration per step and nothing kept but the
\* call in hand: layer counts up to the range of frame_index are walked.
LoopLayerCounts == {1, MaxLayers, FaceIndexRange + 1, FrameIndexRange + 1}

InitLoop ==
    /\ image = NoImage
    /\ file = NoFile
    /\ config \in DefaultConfigs
    /\ env \in Envs
    /\ env.codec_fail = {}
    /\ env.dialog_ok
    /\ env.bake_ok
    /\ env.export_type = "IGNORE"
    /\ exports = << >>
    /\ loads = << >>
    /\ last = "none"
    /\ \E n \in LoopLayerCounts :
         loop = [NoLoop EXCEPT
                   !.pc = "loop",
                   !.image_type = config.image_type,
                   !.layer_count = n,
                   !.frame_count = ExportFrameCount(config.image_type, n),
                   !.face_count = ExportFaceCount(config.image_type, n)]

\* One iteration: layer_index < layer_count, setImage, layer_index++.
LoopSetImage ==
    /\ loop.pc = "loop"
    /\ loop.layer_index < loop.layer_count
    /\ loop' = [loop EXCEPT
                  !.call = SetImageCall(loop.layer_index, loop.image_type,
                                        MaxDim - 1, MaxDim - 1,
                                        LayerPixels(loop.layer_index),
                                        loop.layer_index \notin env.codec_fail),
                  !.calls = @ + 1,
                  !.layer_index = @ + 1]
    /\ UNCHANGED <<image, file, config, env, exports, loads, last>>

\* layer_index == layer_count: the loop is left.
LoopExit ==
    /\ loop.pc = "loop"
    /\ loop.layer_index >= loop.layer_count
    /\ loop' = [loop EXCEPT !.pc = "done"]
    /\ UNCHANGED <<image, file, config, env, exports, loads, last>>

NextLoop == LoopSetImage \/ LoopExit

SpecLoop == InitLoop /\ [][NextLoop]_vars

\* --------------------------------------- the loops of load_image, stepwise
\* The first number that "Layer %.3d" prints with more digits than its
\* precision.
LongNameNumber == 10 ^ NamePrecision

\* The frame and face counts of the containers walked: the small ones, and
\* two of more than LongNameNumber planes.
LoadLoopShapes ==
    ((1..MaxFrames) \X {1, 6, 7})
    \cup {<<LongNameNumber + 1, 1>>, <<(LongNameNumber \div 7) + 1, 7>>}

\* load_image from "int layer_number = 0" to the end of the two for loops,
\* one layer per step and nothing kept of a layer but its name (names: the
\* names given so far).
InitLoadLoop ==
    /\ image = NoImage
    /\ file = NoFile
    /\ config \in DefaultConfigs
    /\ config.image_type = TYPE_STANDARD
    /\ env \in Envs
    /\ env.codec_fail = {}
    /\ env.dialog_ok
    /\ env.bake_ok
    /\ env.export_type = "IGNORE"
    /\ exports = << >>
    /\ loads = << >>
    /\ last = "none"
    /\ \E shape \in LoadLoopShapes :
         loop = [pc |-> "load", frame_count |-> shape[1], face_count |-> shape[2],
                 fr_i |-> 0, fa_i |-> 0, layer_number |-> 0,
                 layer_name |-> << >>, names |-> {}]

\* fa_i < face_count: the layer is named, layer_number++, fa_i++.
LoadLoopLayer ==
    /\ loop.pc = "load"
    /\ loop.fr_i < loop.frame_count
    /\ loop.fa_i < loop.face_count
    /\ loop' = [loop EXCEPT
                  !.layer_name = layer_name(loop.layer_number + 1),
                  !.names = @ \cup {layer_name(loop.layer_number + 1)},
                  !.layer_number = @ + 1,
                  !.fa_i = @ + 1]
    /\ UNCHANGED <<image, file, config, env, exports, loads, last>>

\* fa_i == face_count: the inner loop is left, fr_i++ and fa_i = 0.
LoadLoopNextFrame ==
    /\ loop.pc = "load"
    /\ loop.fr_i < loop.frame_count
    /\ loop.fa_i >= loop.face_count
    /\ loop' = [loop EXCEPT !.fr_i = @ + 1, !.fa_i = 0]
    /\ UNCHANGED <<image, file, config, env, exports, loads, last>>

\* fr_i == frame_count: the outer loop is left.
LoadLoopExit ==
    /\ loop.pc = "load"
    /\ loop.fr_i >= loop.frame_count
    /\ loop' = [loop EXCEPT !.pc = "loaded"]
    /\ UNCHANGED <<image, file, config, env, exports, loads, last>>

NextLoadLoop == LoadLoopLayer \/ LoadLoopNextFrame \/ LoadLoopExit

SpecLoadLoop == InitLoadLoop /\ [][NextLoadLoop]_vars

\* ================================================================= claims
LastExport == exports[Len(exports)]
LastLoad == loads[Len(loads)]

\* C1: load_image on a container of F >= 1 frames and C in {1, 6, 7} faces
\* creates exactly F*C layers, and the k-th layer created (k from 0) holds
\* the plane decoded at mip 0 for frame k div C, face k mod C.
C1_LoadCreatesFrameMajor ==
    last = "load" =>
        LET r == LastLoad
            F == file.frame_count
            C == file.face_count
        IN  (F >= 1 /\ C \in {1, 6, 7}) =>
              /\ Len(r.created) = F * C
              /\ Len(image.layers) = F * C
              /\ \A k \in 0..(F * C - 1) :
                   /\ r.created[k + 1].frame = k \div C
                   /\ r.created[k + 1].face = k % C
                   /\ r.created[k + 1].decoded =>
                        r.created[k + 1].layer.px
                          = getImageData(file, k \div C, k % C)

\* A load of a container of 2 frames of 6 faces has run: 12 layers, the
\* 8th from frame 1, face 1.
C1_Witness ==
    /\ last = "load"
    /\ file.frame_count = 2
    /\ file.face_count = 6
    /\ Len(LastLoad.created) = 12
    /\ LastLoad.created[8].frame = 1
    /\ LastLoad.created[8].face = 1
    /\ LastLoad.created[8].decoded

\* The exports that reached export_image, and the rest of a round trip:
\* the load that ran right after export e, the export right after load l.
Exported == {k \in 1..Len(exports) : exports[k].export_image_called}
LoadsAfter(e) == {k \in 1..Len(loads) : loads[k].run = e.run + 1}
ExportsAfter(l) == {k \in 1..Len(exports) : exports[k].run = l.run + 1}
LoopSubmitted == loop.pc # "idle" /\ loop.calls > 0

\* C2: a Standard export of N >= 1 layers followed by a load of the
\* container gives N layers in the same order: export layer i is written
\* to frame i, the i-th layer created is read from frame i and holds that
\* layer, and a second Standard export sends it to frame i again.
C2_StandardRoundTrip ==
    /\ \A k \in Exported :
         LET e == exports[k]
             N == e.layer_count
         IN  (e.image_type = TYPE_STANDARD /\ N >= 1) =>
               /\ \A i \in 0..(N - 1) : e.submitted[i + 1].frame_index = i
               /\ e.status = "SUCCESS" =>
                    \A m \in LoadsAfter(e) :
                      LET l == loads[m]
                      IN  /\ Len(l.created) = N
                          /\ \A i \in 0..(N - 1) :
                               /\ l.created[i + 1].frame = i
                               /\ (e.submitted[i + 1].ok /\ l.created[i + 1].decoded)
                                    => l.created[i + 1].layer.px = e.submitted[i + 1].px
                          /\ \A j \in ExportsAfter(l) \cap Exported :
                               /\ exports[j].layer_count = N
                               /\ \A i \in 0..(N - 1) :
                                    /\ exports[j].submitted[i + 1].px
                                         = l.created[i + 1].layer.px
                                    /\ exports[j].submitted[i + 1].frame_index
                                         = l.created[i + 1].frame
    /\ (LoopSubmitted /\ loop.image_type = TYPE_STANDARD) =>
         loop.call.frame_index = loop.call.layer_index

\* C3: an Environment Map export declares 6 faces below 7 layers and 7
\* faces otherwise, and submits layer i at (frame 0, face i, mip 0) for
\* every i below the layer count.
C3_EnvMapMapping ==
    \A k \in Exported :
      LET e == exports[k]
      IN  e.image_type = TYPE_ENVMAP =>
            /\ e.face_count = IF e.layer_count < 7 THEN 6 ELSE 7
            /\ Len(e.submitted) = e.layer_count
            /\ \A i \in 0..(e.layer_count - 1) :
                 /\ e.submitted[i + 1].layer_index = i
                 /\ e.submitted[i + 1].frame_index = 0
                 /\ e.submitted[i + 1].face_index = i
                 /\ e.submitted[i + 1].mip = 0

\* C4: an export of a document with no layer is rejected with an error
\* before mapping: no codec call is made and no layer entry is
\* dereferenced.
C4_ZeroLayersRejected ==
    \A k \in 1..Len(exports) :
      exports[k].zero_layers =>
        /\ exports[k].status = "EXECUTION_ERROR"
        /\ exports[k].calls = << >>
        /\ ~exports[k].null_deref

\* C5: when the codec fails to decode one plane, the whole import fails:
\* load_image returns no image and gimp_vtf_load an execution error.
C5_DecodeFailureFailsLoad ==
    \A k \in 1..Len(loads) :
      (\E i \in 1..Len(loads[k].created) : ~loads[k].created[i].decoded) =>
        /\ ~loads[k].returned_image
        /\ loads[k].status = "EXECUTION_ERROR"

\* C7: a Standard export sets the frame count to the layer count and
\* submits layer i at (frame i, face 0, mip 0) for every i below the layer
\* count.
C7_StandardMapping ==
    /\ \A k \in Exported :
         LET e == exports[k]
         IN  e.image_type = TYPE_STANDARD =>
               /\ e.frame_count = e.layer_count
               /\ Len(e.submitted) = e.layer_count
               /\ \A i \in 0..(e.layer_count - 1) :
                    /\ e.submitted[i + 1].layer_index = i
                    /\ e.submitted[i + 1].frame_index = i
                    /\ e.submitted[i + 1].face_index = 0
                    /\ e.submitted[i + 1].mip = 0
    /\ (loop.pc # "idle" /\ loop.image_type = TYPE_STANDARD) =>
         /\ loop.frame_count = loop.layer_count
         /\ loop.calls > 0 =>
              /\ loop.call.layer_index = loop.layer_index - 1
              /\ loop.call.frame_index = loop.call.layer_index
              /\ loop.call.face_index = 0
              /\ loop.call.mip = 0

\* The coordinates an export used, and the index that varies in them.
Coordinate(c) == <<c.frame_index, c.face_index>>
UsedCoordinates(e) == {Coordinate(e.submitted[i]) : i \in 1..Len(e.submitted)}
UsedIndices(e) ==
    {IF e.image_type = TYPE_STANDARD THEN c[1] ELSE c[2] : c \in UsedCoordinates(e)}

\* C8: the export mapping is total and injective on 0 .. layer_count-1 for
\* every texture type and layer count, frame index in 16 bits and face
\* index in 8: one coordinate per layer, no coordinate shared by two
\* layers, none skipped between the first and the last used.
C8_MappingInjective ==
    \A k \in Exported :
      LET e == exports[k]
          used == UsedCoordinates(e)
          indices == UsedIndices(e)
      IN  /\ Len(e.submitted) = e.layer_count
          /\ Cardinality(used) = e.layer_count
          /\ \A x \in indices :
               (x - 1) \in indices \/ (\A y \in indices : x <= y)

\* C6: an export submits every layer index 0 .. layer_count-1 to setImage
\* exactly once; a setImage that fails does not stop the loop, the layers
\* after it are submitted and bake is called after them.
C6_EveryLayerSubmittedOnce ==
    (last = "export" /\ LastExport.export_image_called) =>
        LET e == LastExport
            N == Len(image.layers)
            SetImages == {k \in 1..Len(e.calls) : e.calls[k] = "setImage"}
        IN  /\ Len(e.submitted) = N
            /\ \A i \in 0..(N - 1) :
                 Cardinality({k \in 1..Len(e.submitted) :
                                e.submitted[k].layer_index = i}) = 1
            /\ Cardinality(SetImages) = N
            /\ e.calls[Len(e.calls)] = "bake"
            /\ \A k \in SetImages : k < Len(e.calls)

\* An export of 3 layers whose first setImage failed has submitted the
\* other two and baked.
C6_Witness ==
    /\ last = "export"
    /\ LastExport.export_image_called
    /\ Len(image.layers) = 3
    /\ ~LastExport.submitted[1].ok
    /\ LastExport.submitted[2].ok
    /\ LastExport.submitted[3].layer_index = 2
    /\ LastExport.calls[Len(LastExport.calls)] = "bake"
    /\ LastExport.status = "SUCCESS"

IsPow2(x) == \E e \in 0..x : x = 2^e

\* C9 as written: export, load of the container, export again give the
\* second export the layer count and the per-layer sizes of the first, for
\* every texture type and every layer count >= 1.
C9_Idempotent ==
    \A k \in Exported :
      LET e == exports[k]
      IN  (e.layer_count >= 1 /\ e.status = "SUCCESS") =>
            \A m \in LoadsAfter(e) :
              \A j \in ExportsAfter(loads[m]) \cap Exported :
                /\ exports[j].layer_count = e.layer_count
                /\ \A i \in 1..e.layer_count :
                     /\ exports[j].submitted[i].width = e.submitted[i].width
                     /\ exports[j].submitted[i].height = e.submitted[i].height

\* C9, amended: the same, for a Standard document, or a document of another
\* type with exactly 6 or 7 layers, whose width and height are powers of
\* two.
C9_IdempotentWhenRepresentable ==
    \A k \in Exported :
      LET e == exports[k]
      IN  (/\ e.layer_count >= 1
           /\ e.status = "SUCCESS"
           /\ (e.image_type = TYPE_STANDARD \/ e.layer_count \in {6, 7})
           /\ IsPow2(e.width)
           /\ IsPow2(e.height)) =>
            \A m \in LoadsAfter(e) :
              \A j \in ExportsAfter(loads[m]) \cap Exported :
                /\ exports[j].layer_count = e.layer_count
                /\ Len(exports[j].submitted) = e.layer_count
                /\ \A i \in 1..e.layer_count :
                     /\ exports[j].submitted[i].width = e.submitted[i].width
                     /\ exports[j].submitted[i].height = e.submitted[i].height

\* An Environment Map document of 7 layers has been exported, loaded and
\* exported again with 7 layers.
C9_Witness ==
    /\ Len(exports) = 2
    /\ Len(loads) = 1
    /\ exports[1].image_type = TYPE_ENVMAP
    /\ exports[1].layer_count = 7
    /\ exports[1].status = "SUCCESS"
    /\ loads[1].run = exports[1].run + 1
    /\ exports[2].run = loads[1].run + 1
    /\ exports[2].export_image_called
    /\ exports[2].layer_count = 7

\* C10: an export sets one of frame count and face count from the layer
\* count and leaves the other at 1: Standard gives frame count N and face
\* count 1, another type frame count 1 (and 6 or 7 faces); a Standard export
\* of one layer gives 1 and 1, and its container loads as exactly 1 layer.
C10_OneCountFromLayers ==
    /\ (last = "export" /\ LastExport.export_image_called) =>
         LastExport.layer_count = Len(image.layers)
    /\ \A k \in Exported :
         LET e == exports[k]
         IN  /\ e.image_type = TYPE_STANDARD =>
                  (e.frame_count = e.layer_count /\ e.face_count = 1)
             /\ e.image_type # TYPE_STANDARD =>
                  (e.frame_count = 1 /\ e.face_count \in {6, 7})
             /\ (/\ e.image_type = TYPE_STANDARD
                 /\ e.layer_count = 1
                 /\ e.status = "SUCCESS") =>
                  /\ e.frame_count = 1
                  /\ e.face_count = 1
                  /\ \A m \in LoadsAfter(e) :
                       /\ Len(loads[m].created) = 1
                       /\ Len(loads[m].image.layers) = 1

\* A Standard export of one layer has been loaded again as one layer, and
\* that document exported.
C10_Witness ==
    /\ Len(exports) = 2
    /\ exports[1].image_type = TYPE_STANDARD
    /\ exports[1].layer_count = 1
    /\ exports[1].status = "SUCCESS"
    /\ LoadsAfter(exports[1]) # {}
    /\ exports[2].export_image_called

\* The exports that were not cancelled: no dialog, or a dialog confirmed.
NotCancelled == {k \in 1..Len(exports) : exports[k].status # "CANCEL"}

\* C11: an export that is not cancelled returns an execution error if and
\* only if bake was called and returned failure; whether a setImage call
\* failed changes nothing: a run with a failed setImage and a bake that
\* succeeded returns success.
C11_ErrorIffBakeFails ==
    \A k \in NotCancelled :
      LET e == exports[k]
          bake_failed == e.export_image_called /\ ~env.bake_ok
      IN  /\ e.status = "EXECUTION_ERROR" <=> bake_failed
          /\ (e.export_image_called /\ env.bake_ok) => e.status = "SUCCESS"

\* A confirmed interactive export whose first setImage failed and whose
\* bake succeeded has returned success.
C11_Witness ==
    /\ last = "export"
    /\ LastExport.run_mode = "INTERACTIVE"
    /\ LastExport.export_image_called
    /\ Len(LastExport.submitted) = 2
    /\ ~LastExport.submitted[1].ok
    /\ env.bake_ok
    /\ LastExport.status = "SUCCESS"

\* C12: every raw pixel buffer allocated for a layer (raw_bytes in
\* export_image) or a plane (dst_buf in load_image) is released before the
\* function returns: as many buffers are freed as were allocated.
C12_BuffersReleased ==
    /\ \A k \in Exported :
         /\ exports[k].allocated = Len(exports[k].submitted)
         /\ exports[k].freed = exports[k].allocated
    /\ \A k \in 1..Len(loads) :
         /\ loads[k].allocated = Len(loads[k].created)
         /\ loads[k].freed = loads[k].allocated

\* C13: export_image gets the host's top-to-bottom layer list reversed:
\* export layer index i is the (i+1)-th layer from the bottom of the stack.
\* load_image puts every new layer on top, so in an export of the document
\* a load made, the layer created k-th (k from 0) is export layer index k.
C13_ExportOrderIsCreationOrder ==
    /\ (last = "export" /\ LastExport.export_image_called) =>
         LET e == LastExport
             N == Len(image.layers)
         IN  /\ Len(e.submitted) = N
             /\ \A i \in 0..(N - 1) :
                  /\ e.submitted[i + 1].layer_index = i
                  /\ e.submitted[i + 1].px = image.layers[N - i].px
    /\ \A m \in 1..Len(loads) :
         LET l == loads[m]
         IN  /\ \A k \in 0..(Len(l.created) - 1) :
                  l.image.layers[Len(l.created) - k] = l.created[k + 1].layer
             /\ \A j \in ExportsAfter(l) \cap Exported :
                  /\ Len(exports[j].submitted) = Len(l.created)
                  /\ \A k \in 0..(Len(l.created) - 1) :
                       /\ exports[j].submitted[k + 1].layer_index = k
                       /\ exports[j].submitted[k + 1].px = l.created[k + 1].layer.px

\* A container of 2 frames of 6 faces has been loaded and the document
\* exported: the layer created 8th (frame 1, face 1) is export layer 7, and
\* it sits 8th from the bottom of a stack of 12.
C13_Witness ==
    /\ last = "export"
    /\ Len(loads) = 1
    /\ Len(loads[1].created) = 12
    /\ LastExport.run = loads[1].run + 1
    /\ LastExport.export_image_called
    /\ LastExport.submitted[8].layer_index = 7
    /\ LastExport.submitted[8].px = loads[1].created[8].layer.px
    /\ image.layers[5].px = loads[1].created[8].layer.px
    /\ image.layers[1].px # image.layers[12].px

\* The number a name's digits spell, read as decimal.
RECURSIVE DigitsValue(_)
DigitsValue(digits) ==
    IF digits = << >> THEN 0
    ELSE 10 * DigitsValue(SubSeq(digits, 1, Len(digits) - 1)) + digits[Len(digits)]

\* name is "Layer " followed by k in decimal, zero-padded to three digits
\* and longer only when k needs more.
IsNameOf(name, k) ==
    LET digits == SubSeq(name, 2, Len(name))
    IN  /\ Len(name) >= 1 + NamePrecision
        /\ name[1] = "Layer "
        /\ \A i \in 1..Len(digits) : digits[i] \in 0..9
        /\ DigitsValue(digits) = k
        /\ Len(digits) > NamePrecision => digits[1] # 0

\* C14: the k-th layer load_image creates (k from 1, counted across all
\* frames and faces, not restarted per frame) is named "Layer " followed by
\* k zero-padded to at least three digits; the names of one load are
\* pairwise distinct and the k-th name is the same in every load.
C14_LayerNamedByPosition ==
    /\ \A m \in 1..Len(loads) :
         LET created == loads[m].created
         IN  /\ \A k \in 1..Len(created) :
                  /\ IsNameOf(created[k].layer_name, k)
                  /\ k = created[k].frame * loads[m].face_count + created[k].face + 1
                  /\ \A n \in 1..Len(loads) :
                       k <= Len(loads[n].created) =>
                         loads[n].created[k].layer_name = created[k].layer_name
             /\ Cardinality({created[k].layer_name : k \in 1..Len(created)})
                  = Len(created)
    /\ (loop.pc \in {"load", "loaded"} /\ loop.layer_number > 0) =>
         /\ loop.layer_number = loop.fr_i * loop.face_count + loop.fa_i
         /\ IsNameOf(loop.layer_name, loop.layer_number)
         /\ Cardinality(loop.names) = loop.layer_number

\* The loops are in the second frame of a container of 7 faces and have
\* just named their 1000th layer: four digits, after 999 names of three.
C14_Witness ==
    /\ loop.pc = "load"
    /\ loop.face_count = 7
    /\ loop.fr_i > 0
    /\ loop.layer_number = LongNameNumber
    /\ loop.layer_name = <<"Layer ", 1, 0, 0, 0>>
    /\ <<"Layer ", 0, 0, 9>> \in loop.names
    /\ <<"Layer ", 0, 1, 0>> \in loop.names

\* C15: every coordinate an export passes to setImage lies inside what the
\* export declared on the container, frame index below the frame count and
\* face index below the face count, for every texture type and every layer
\* count >= 1.
C15_CoordinatesDeclared ==
    \A k \in Exported :
      LET e == exports[k]
      IN  e.layer_count >= 1 =>
            \A i \in 1..Len(e.submitted) :
              /\ e.submitted[i].frame_index < e.frame_count
              /\ e.submitted[i].face_index < e.face_count

\* C16: an interactive or last-values run whose dialog is cancelled never
\* calls export_image (no codec call, no bake) and returns CANCEL; a
\* non-interactive run never shows the dialog and always calls
\* export_image; on every path the export copy is deleted exactly when the
\* host made one, and the original image is never deleted.
C16_DialogGatesExport ==
    \A k \in 1..Len(exports) :
      LET e == exports[k]
      IN  /\ (e.run_mode # "NONINTERACTIVE" /\ ~env.dialog_ok) =>
                /\ ~e.export_image_called
                /\ e.calls = << >>
                /\ e.status = "CANCEL"
          /\ e.run_mode = "NONINTERACTIVE" =>
                /\ ~e.dialog_shown
                /\ e.export_image_called
          /\ e.copy_deleted <=> e.copy_created
          /\ ~e.original_deleted

\* The positions of a call in the codec calls of export e.
CallsOf(e, names) == {i \in 1..Len(e.calls) : e.calls[i] \in names}

\* C17: the codec calls of one export come in a fixed order: the frame or
\* face count is set once, before the first setImage; every setImage comes
\* before the mip step, which is setMipCount followed by computeMips when
\* a filter is chosen, and setMipCount(1) with no computeMips when the
\* filter is "none"; the thumbnail step, computeTransparencyFlags and
\* setFormat follow in that order; bake is called once and is the last
\* call.
C17_CodecCallOrder ==
    \A k \in Exported :
      LET e == exports[k]
          count == CallsOf(e, IF e.image_type = TYPE_STANDARD
                                THEN {"setFrameCount"} ELSE {"setFaceCount"})
          set_image == CallsOf(e, {"setImage"})
          mip == CallsOf(e, {"setMipCount", "setMipCount(1)"})
          compute_mips == CallsOf(e, {"computeMips"})
          thumbnail == CallsOf(e, {"computeThumbnail", "removeThumbnail"})
          flags == CallsOf(e, {"computeTransparencyFlags"})
          format == CallsOf(e, {"setFormat"})
          bake == CallsOf(e, {"bake"})
          Before(A, B) == \A a \in A, b \in B : a < b
          Once(A) == Cardinality(A) = 1
      IN  /\ Once(count)
          /\ CallsOf(e, {"setFrameCount", "setFaceCount"}) = count
          /\ Cardinality(set_image) = e.layer_count
          /\ Before(count, set_image)
          /\ Once(mip)
          /\ Before(set_image, mip)
          /\ Before(count, mip)
          /\ IF config.mipmap_filter # "none"
             THEN /\ \A i \in mip : e.calls[i] = "setMipCount"
                  /\ compute_mips = {i + 1 : i \in mip}
             ELSE /\ \A i \in mip : e.calls[i] = "setMipCount(1)"
                  /\ compute_mips = {}
          /\ Once(thumbnail)
          /\ \A i \in thumbnail :
               e.calls[i] = IF config.thumbnail_enabled
                            THEN "computeThumbnail" ELSE "removeThumbnail"
          /\ Before(mip \cup compute_mips, thumbnail)
          /\ Once(flags)
          /\ Before(thumbnail, flags)
          /\ Once(format)
          /\ Before(flags, format)
          /\ bake = {Len(e.calls)}

\* An Environment Map export of 2 layers with the filter "none" and the
\* thumbnail off has made its calls: two setImage, setMipCount(1) with no
\* computeMips, and bake last.
C17_Witness ==
    /\ last = "export"
    /\ LastExport.export_image_called
    /\ LastExport.image_type = TYPE_ENVMAP
    /\ config.mipmap_filter = "none"
    /\ ~config.thumbnail_enabled
    /\ ~config.recompute_reflectivity_enabled
    /\ LastExport.calls =
         <<"setVersion", "addFlags", "setImageResizeMethods", "setSize",
           "setFaceCount", "setImage", "setImage", "setBumpMapScale",
           "setMipCount(1)", "removeThumbnail", "computeTransparencyFlags",
           "setFormat", "bake">>

====
